---- MODULE Spec2Model ----
(***************************************************************************)
(* A model of the replication engine of local_db_sync.                     *)
(*                                                                         *)
(* Spec           one remote (source) and one local (destination)          *)
(*                collection and one invocation of syncCollectionData      *)
(*                (mongoUtils: src/unnamed/part_002), with documents       *)
(*                inserted into the source at any moment.                  *)
(* SpecLive       Spec, with every store operation eventually answering.    *)
(* SpecTwice      two invocations of syncCollectionData, one after the     *)
(*                other, on a source that does not change.                 *)
(* SpecConcurrent two invocations of syncCollectionData on the same        *)
(*                collection whose steps interleave.                       *)
(* SpecProvision  the collection diff of getCollectionsToCreate            *)
(*                (src/src/lib/services/databases.ts) and the provisioning *)
(*                of the missing collections.                              *)
(*                                                                         *)
(* SpecRecords    createConnection requests that interleave                 *)
(*                (src/src/lib/controllers/databases.ts) and               *)
(*                DatabaseServiceApi.updateLastSync.                       *)
(* SpecService    one request POST /collections/:id/records/sync           *)
(*                (CollectionServiceApi.syncAllRecords, src/unnamed/       *)
(*                part_007) with the sync it calls, and the error handler  *)
(*                (src/unnamed/part_000).                                  *)
(*                                                                         *)
(* One action is one stretch of code between two awaits.  A store          *)
(* operation that is awaited may reject; the action Reject models that.    *)
(***************************************************************************)
EXTENDS Integers, Sequences, FiniteSets, TLC

\* ------------------------------------------------------------------ bounds

\* The flush threshold of syncDataToLocalDatabase.  The source sets it to 1000
\* (part_002:67); the model scales it down so that the threshold is reached.
batchSize == 2

\* The driver's limit on the operations of one of its internal batches (the
\* server's maxWriteBatchSize, 100000 on a current server); scaled down alike,
\* and like the real one larger than batchSize.
maxWriteBatchSize == 3

\* Documents in the source collection when the model starts: 0..MaxDocs.
MaxDocs == 4

\* Documents inserted into the source collection while the model runs.
MaxInserts == 1

\* The invocations of syncCollectionData: a first and a second one.
Procs == {1, 2}

\* ------------------------------------------------------------ option values

None == <<>>

Some(x) == <<x>>

\* ------------------------------------------------------------ the two stores

\* The fields every source document carries.
SrcFields == [a |-> 1]

SrcDoc(i) == [id |-> i, fields |-> SrcFields]

IdIndex == [name |-> "_id_", key |-> "_id"]

\* The collections the source can be at the start: N documents with the ids
\* 1..N, with or without a validation ruleset, with or without a secondary index.
SrcInits ==
    { [docs |-> [i \in 1..n |-> SrcDoc(i)], validator |-> v, indexes |-> ix] :
        n \in 0..MaxDocs,
        v \in {None, Some({"r1"})},
        ix \in { {IdIndex}, {IdIndex, [name |-> "ix", key |-> "a"]} } }

NoCollection == [exists |-> FALSE, docs |-> <<>>, validator |-> None, indexes |-> {}]

\* The collections the destination can be at the start: absent; empty; or
\* holding a document with the id 1 and other fields, a document outside the
\* source, a ruleset of its own and an index that conflicts with the source's.
DstInits ==
    { NoCollection,
      [exists |-> TRUE, docs |-> <<>>, validator |-> None, indexes |-> {IdIndex}],
      [exists |-> TRUE, docs |-> (1 :> [a |-> 2, b |-> 2]) @@ (9 :> [b |-> 3]),
       validator |-> Some({"r2"}), indexes |-> {IdIndex}],
      [exists |-> TRUE, docs |-> (1 :> [a |-> 2, b |-> 2]),
       validator |-> Some({"r2"}),
       indexes |-> {IdIndex, [name |-> "ix", key |-> "b"]}] }

VARIABLES
    src,        \* the source collection: [docs, validator, indexes]
    dst,        \* the destination collection: [exists, docs, validator, indexes]
    run,        \* run[p]: the state of the p-th invocation of syncCollectionData
    inserts,    \* documents inserted into the source so far
    remoteCollections,  \* names of the collections of the remote database
    localCollections,   \* names of the collections of the local database
    prov,       \* the provisioning of the missing collections
    connections,    \* the labels of the records of ConnectionModel, one per record
    creates,    \* creates[q]: the q-th createConnection request
    databases,  \* the records of DatabaseModel, by id
    dbCall,     \* a call of DatabaseServiceApi.updateLastSync
    collectionRecord,   \* the record of CollectionModel of the synced collection
    svc,        \* a request POST /collections/:id/records/sync
    http        \* the response of that request

vars ==
    <<src, dst, run, inserts, remoteCollections, localCollections, prov,
      connections, creates, databases, dbCall, collectionRecord, svc, http>>

syncVars == <<src, dst, run, inserts>>

provVars == <<remoteCollections, localCollections, prov>>

recordVars == <<connections, creates, databases, dbCall>>

serviceVars == <<collectionRecord, svc, http>>

apiVars == <<connections, creates, databases, dbCall, collectionRecord, svc, http>>

\* ------------------------------------------------- the driver's bulk operation

\* A bulk operation is the list of the driver's batches, the last of them the
\* batch operations are still added to; each batch is a list of operations.
initializeUnorderedBulkOp == <<>>

\* A bulk operation that puts a new operation in front of the ones of its
\* current batch.
AddFirst(bulk, op) ==
    LET b0  == IF bulk = <<>> THEN << <<>> >> ELSE bulk
        cur == b0[Len(b0)]
    IN  IF Len(cur) + 1 >= maxWriteBatchSize
        THEN Append(b0, <<op>>)
        ELSE [b0 EXCEPT ![Len(b0)] = <<op>> \o cur]

\* find({_id}).upsert().updateOne({$set: doc}): the driver adds the update to
\* its current batch, and closes that batch and opens a new one when the
\* current one would reach maxWriteBatchSize operations.
AddToOperationsList(bulk, op) ==
    LET b0  == IF bulk = <<>> THEN << <<>> >> ELSE bulk
        cur == b0[Len(b0)]
    IN  IF Len(cur) + 1 >= maxWriteBatchSize
        THEN Append(b0, <<op>>)
        ELSE [b0 EXCEPT ![Len(b0)] = Append(cur, op)]

\* The number of batches the driver has closed, the current one not counted.
BatchesClosed(bulk) == IF bulk = <<>> THEN 0 ELSE Len(bulk) - 1

\* bulkOperations.batches.length: batches is the driver's list of batches (the
\* closed ones and the current one), so its length is the number of batches,
\* not the number of operations queued.
BatchesLength(bulk) == Len(bulk)

RECURSIVE BulkOps(_)
\* The operations of a bulk operation, in the order they were added.
BulkOps(bulk) ==
    IF bulk = <<>> THEN <<>> ELSE bulk[1] \o BulkOps(Tail(bulk))

\* The number of operations a bulk operation holds.
BulkLength(bulk) == Len(BulkOps(bulk))

\* $setOnInsert: a stored document keeps every field it has.
KeepFields(old, new) ==
    [f \in (DOMAIN old) \cup (DOMAIN new) |-> IF f \in DOMAIN old THEN old[f] ELSE new[f]]

\* $set: the fields of the operation's document are written over the stored
\* ones; a stored field the document lacks stays.
SetFields(old, new) ==
    [f \in (DOMAIN old) \cup (DOMAIN new) |-> IF f \in DOMAIN new THEN new[f] ELSE old[f]]

\* A mis-keyed write: the document is stored under a key of its own instead of
\* the matched one, so every execution adds a document.
InsertFresh(docs, op) ==
    LET fresh == 100 + Cardinality(DOMAIN docs)
    IN  [i \in (DOMAIN docs) \cup {fresh} |-> IF i = fresh THEN op.fields ELSE docs[i]]

\* One upsert by _id on the documents of a collection.
UpdateOneUpsert(docs, op) ==
    [i \in (DOMAIN docs) \cup {op.id} |->
        IF i = op.id
        THEN IF op.id \in DOMAIN docs THEN SetFields(docs[i], op.fields) ELSE op.fields
        ELSE docs[i]]

\* A write that replaces the documents of the collection by the ones written.
ReplacedBy(docs, ops, S) ==
    [id \in { ops[k].id : k \in S } |->
        ops[CHOOSE k \in S : ops[k].id = id].fields]

RECURSIVE ApplyUpTo(_, _, _, _)
\* The documents after the operations ops[j], j \in S and j <= k, were applied
\* in order; the documents before ops[k] are bound to one value, rest.
ApplyUpTo(docs, ops, S, k) ==
    IF k = 0 THEN docs
    ELSE CHOOSE after \in
            { IF k \in S THEN UpdateOneUpsert(rest, ops[k]) ELSE rest :
                rest \in {ApplyUpTo(docs, ops, S, k - 1)} } : TRUE

\* The documents after the operations ops[k], k \in S, were applied in order.
ApplyOps(docs, ops, S) == ApplyUpTo(docs, ops, S, Len(ops))

\* The destination after the operations ops[k], k \in S, were written: a write
\* to a collection that does not exist creates it, with its _id index.
WriteOps(c, ops, S) ==
    IF S = {} THEN c
    ELSE [c EXCEPT !.exists = TRUE,
                   !.docs = ApplyOps(c.docs, ops, S),
                   !.indexes = c.indexes \cup {IdIndex}]

\* bulkOperations.execute() when it succeeds: every operation is applied.
Execute(c, bulk) == WriteOps(c, BulkOps(bulk), 1..BulkLength(bulk))

\* ------------------------------------------------------- one collection sync

\* An invocation of syncCollectionData before it is called.  localDb and
\* remoteDb are the handles the resolver has returned; opens counts the
\* connections opened for the invocation and closes the ones closed; started
\* and steps list the steps begun and completed; reports the progress lines
\* logged; execs the number of operations of each bulk execution and executed
\* the ids of the operations executed, in order; ins0 the number of inserts
\* into the source when the invocation was called and insAtCount when it
\* snapshotted the total; rejected the step in which an awaited operation
\* rejected and rejectedAt the await at which it did; error the step whose
\* error left syncCollectionData; dstAtStart and dstAtEnd the destination as
\* the invocation found it when it was called and left it when it returned.
\* connectToMongoDB returns client.db(dbName) and keeps no reference to the
\* MongoClient (part_002:10-13) and no code calls close, so no action changes
\* closes.
IdleRun ==
    [pc |-> "idle", target |-> "raw", localDb |-> None, remoteDb |-> None,
     opens |-> 0, closes |-> 0, total |-> 0, pos |-> 0,
     bulk |-> initializeUnorderedBulkOp, thisCount |-> 0, reports |-> <<>>,
     execs |-> <<>>, executed |-> <<>>, validationInfo |-> None,
     indexes |-> {}, collMods |-> 0,
     records |-> None, started |-> <<>>, steps |-> <<>>, result |-> None,
     rejected |-> None, rejectedAt |-> "", error |-> None,
     ins0 |-> 0, insAtCount |-> 0, dstAtStart |-> None, dstAtEnd |-> None]

Finished == {"done", "failed"}

\* The step syncCollectionData runs after a step: schema before documents.
StepAfterSwapped(step) ==
    CASE step = "resolve" -> "schema"
      [] step = "schema"  -> "data"
      [] step = "data"    -> "indexes"
      [] step = "indexes" -> "return"

\* The step syncCollectionData runs after a step has completed.
StepAfter(step) ==
    CASE step = "resolve" -> "data"
      [] step = "data"    -> "schema"
      [] step = "schema"  -> "indexes"
      [] step = "indexes" -> "return"

\* Where a step first awaits.  The three copy steps are handed the resolved
\* handles, so that their own call of the resolver passes them through.
EntryPc(step) ==
    CASE step = "data"    -> "count"
      [] step = "schema"  -> "options"
      [] step = "indexes" -> "listIndexes"
      [] step = "return"  -> "done"

\* An invocation that is never resumed when the operation it awaits answers.
NeverResumed(r, step, c) == [r EXCEPT !.pc = "waiting"]

\* The invocation r with its current step completed: the next step is called at
\* once, and after the last one the record count is returned.
Complete(r, step, c) ==
    LET next == StepAfter(step)
    IN  IF next = "return"
        THEN [r EXCEPT !.pc = "done", !.steps = Append(@, step),
                       !.result = r.records, !.dstAtEnd = Some(c)]
        ELSE [r EXCEPT !.pc = EntryPc(next), !.steps = Append(@, step),
                       !.started = Append(@, next)]

CurrentStep(r) == r.started[Len(r.started)]

\* The invocation r with the rejection of the operation it awaits noted.
Rejected(r) == [r EXCEPT !.rejected = Some(CurrentStep(r)), !.rejectedAt = r.pc]

\* An error that is swallowed in the schema step: the sync goes on with the
\* next step.
SkipAndContinue(r, c) ==
    IF CurrentStep(r) = "schema"
    THEN Complete(r, "schema", c)
    ELSE [r EXCEPT !.pc = "failed", !.error = Some(CurrentStep(r))]

\* A resolver that tries again when a connection cannot be opened.
RetryConnect(r, c) ==
    IF r.pc \in {"connectLocal", "connectRemote"}
    THEN r
    ELSE [r EXCEPT !.pc = "failed", !.error = Some(CurrentStep(r))]

\* A copier that drops a batch whose execution failed in the loop and goes on
\* with the scan.
SkipBatch(r, c) ==
    IF r.pc = "flush"
    THEN [r EXCEPT !.pc = "scan", !.bulk = initializeUnorderedBulkOp]
    ELSE [r EXCEPT !.pc = "failed", !.error = Some(CurrentStep(r))]

\* The invocation r after an awaited operation rejected: no function of
\* mongoUtils catches, so the error leaves syncCollectionData.
Throw(r, c) == [r EXCEPT !.pc = "failed", !.error = Some(CurrentStep(r))]

\* The parameters syncCollectionData can be called with (part_002:164-176):
\* raw coordinates with a remote URL, raw coordinates whose remote URL is the
\* empty string, and two handles of the caller.
SyncTargets == {"raw", "rawNoUrl", "populated"}

IsRaw(target) == target \in {"raw", "rawNoUrl"}

\* syncParams.remoteDbUrl; "" stands for the empty string and for undefined.
RemoteDbUrl(target) == IF target = "raw" THEN "mongodb://remote" ELSE ""

\* syncParams.localDb and syncParams.remoteDb: undefined in raw coordinates.
PopulatedLocalDb(target) == IF target = "populated" THEN Some("callerLocal") ELSE None

PopulatedRemoteDb(target) == IF target = "populated" THEN Some("callerRemote") ELSE None

\* A resolver that opens connections whatever the parameters carry.
OpensAlways(target) == TRUE

\* getSourceAndTargetDbConnections, if (coreParams.remoteDbUrl): TRUE when the
\* remote URL is truthy and connections are to be opened, FALSE when the
\* else branch reads the handles off the parameters.
OpensConnections(target) == RemoteDbUrl(target) # ""

\* Number((count / total) * 100).toFixed(2), in hundredths of a percent,
\* rounded to the nearest; the division by zero gives NaN for 0/0 and
\* Infinity otherwise.
Percent(count, total) ==
    IF total = 0
    THEN [nan |-> count = 0, infinity |-> count # 0, hundredths |-> 0]
    ELSE [nan |-> FALSE, infinity |-> FALSE,
          hundredths |-> (2 * count * 10000 + total) \div (2 * total)]

\* The progress line of one document (part_002:77-78): the percentage is
\* computed from the counter first, the counter is incremented as the line is
\* written.
LogProgress(r) ==
    LET percent == Percent(r.thisCount, r.total)
    IN  [r EXCEPT !.reports = Append(@, [processed |-> r.thisCount + 1,
                                          total |-> r.total,
                                          percent |-> percent,
                                          at |-> r.pos]),
                  !.thisCount = @ + 1]

\* A copier that returns the number of documents it counted in the loop.
RecordsVisited(r) == r.thisCount

\* return totalCount (part_002:84).
Records(r) == r.total

\* The ids of the operations of a bulk operation.
OpIds(bulk) == [i \in 1..BulkLength(bulk) |-> BulkOps(bulk)[i].id]

\* countDocuments({}) that misses one document.
CountShort(c) == IF Len(c.docs) > 0 THEN Len(c.docs) - 1 ELSE 0

\* countDocuments({}) on a collection.
CountDocuments(c) == Len(c.docs)

\* The validator is applied whether the source has one or not.
Always(validationInfo) == TRUE

\* if (validationInfo): collMod is issued only for a ruleset the source has.
HasValidator(validationInfo) == validationInfo # None

\* collMod that adds the rules to the ones the collection has.
CollModMerge(c, validationInfo) ==
    [c EXCEPT !.validator =
        IF c.validator = None \/ validationInfo = None THEN validationInfo
        ELSE Some(c.validator[1] \cup validationInfo[1])]

\* collMod {validator}: the collection's ruleset becomes the given one.
CollMod(c, validationInfo) == [c EXCEPT !.validator = validationInfo]

\* A server that accepts every index definition.
NoConflict(c, specs) == FALSE

\* createIndexes is refused when the collection has an index of the same name
\* with another definition, or of the same definition with another name.
IndexConflict(c, specs) ==
    \E s \in specs, d \in c.indexes :
        \/ s.name = d.name /\ s.key # d.key
        \/ s.key = d.key /\ s.name # d.name

\* createIndexes(specs) when it is accepted: an index the collection has
\* already is left as it is; a collection that does not exist is created.
CreateIndexes(c, specs) ==
    [c EXCEPT !.exists = TRUE, !.indexes = c.indexes \cup specs \cup {IdIndex}]

\* ---------------------------------------------------------------- actions

\* syncCollectionData is called with one of the given parameters
\* (part_002:155-157) and the resolver runs up to its first await.
CallWith(p, targets) ==
    /\ run[p].pc = "idle"
    /\ \E target \in targets :
        LET r == [run[p] EXCEPT !.target = target, !.started = <<"resolve">>,
                                !.ins0 = inserts, !.dstAtStart = Some(dst)]
        IN  run' = [run EXCEPT ![p] =
                IF OpensConnections(target)
                THEN [r EXCEPT !.pc = "connectLocal"]
                ELSE Complete([r EXCEPT !.localDb = PopulatedLocalDb(target),
                                        !.remoteDb = PopulatedRemoteDb(target)],
                              "resolve", dst)]
    /\ UNCHANGED <<src, dst, inserts, provVars, apiVars>>

\* syncCollectionData is called with any parameters.
Call(p) == CallWith(p, SyncTargets)

\* The p-th invocation is called when the one before it has ended.
Start(p) ==
    /\ \A q \in Procs : q < p => run[q].pc \in Finished
    /\ Call(p)

\* connectToMongoDB(LOCAL_DB_URI, localDbName) has answered (part_002:136).
ConnectLocal(p) ==
    /\ run[p].pc = "connectLocal"
    /\ run' = [run EXCEPT ![p] = [@ EXCEPT !.opens = @ + 1,
                                           !.localDb = Some("openedLocal"),
                                           !.pc = "connectRemote"]]
    /\ UNCHANGED <<src, dst, inserts, provVars, apiVars>>

\* connectToMongoDB(remoteDbUrl, remoteDbName) has answered (part_002:137).
ConnectRemote(p) ==
    /\ run[p].pc = "connectRemote"
    /\ run' = [run EXCEPT ![p] =
            Complete([@ EXCEPT !.opens = @ + 1, !.remoteDb = Some("openedRemote")],
                     "resolve", dst)]
    /\ UNCHANGED <<src, dst, inserts, provVars, apiVars>>

\* countDocuments has answered (part_002:63-69): the total is snapshotted.
Count(p) ==
    /\ run[p].pc = "count"
    /\ run[p].remoteDb # None
    /\ run' = [run EXCEPT ![p] = [@ EXCEPT !.total = CountDocuments(src),
                                           !.insAtCount = inserts,
                                           !.bulk = initializeUnorderedBulkOp,
                                           !.thisCount = 0,
                                           !.pc = "scan"]]
    /\ UNCHANGED <<src, dst, inserts, provVars, apiVars>>

\* remoteDb.collection(collectionName) on a handle that is undefined
\* (part_002:61-63): a TypeError leaves syncDataToLocalDatabase.
NoHandle(p) ==
    /\ run[p].pc = "count"
    /\ run[p].remoteDb = None
    /\ run' = [run EXCEPT ![p] = Throw(Rejected(@), dst)]
    /\ UNCHANGED <<src, dst, inserts, provVars, apiVars>>

\* The cursor has delivered a document (part_002:70-72, 77-78): it is queued;
\* at the threshold the batch is executed before the progress line is written.
CursorNext(p) ==
    /\ run[p].pc = "scan"
    /\ run[p].pos < Len(src.docs)
    /\ LET doc == src.docs[run[p].pos + 1]
           r   == [run[p] EXCEPT !.pos = @ + 1,
                                 !.bulk = AddToOperationsList(@, doc)]
       IN  run' = [run EXCEPT ![p] =
               IF BatchesLength(r.bulk) >= batchSize
               THEN [r EXCEPT !.pc = "flush"]
               ELSE LogProgress(r)]
    /\ UNCHANGED <<src, dst, inserts, provVars, apiVars>>

\* bulkOperations.execute() of a full batch has answered (part_002:73-78).
FlushBatch(p) ==
    /\ run[p].pc = "flush"
    /\ dst' = Execute(dst, run[p].bulk)
    /\ run' = [run EXCEPT ![p] =
            LogProgress([@ EXCEPT !.execs = Append(@, BulkLength(run[p].bulk)),
                                  !.executed = @ \o OpIds(run[p].bulk),
                                  !.bulk = initializeUnorderedBulkOp,
                                  !.pc = "scan"])]
    /\ UNCHANGED <<src, inserts, provVars, apiVars>>

\* The cursor is exhausted (part_002:79-80): a batch that holds something is
\* executed, otherwise the function returns the total (part_002:83-84).
CursorEnd(p) ==
    /\ run[p].pc = "scan"
    /\ run[p].pos >= Len(src.docs)
    /\ run' = [run EXCEPT ![p] =
            IF BatchesLength(@.bulk) > 0
            THEN [@ EXCEPT !.pc = "finalFlush"]
            ELSE Complete([@ EXCEPT !.records = Some(Records(run[p]))], "data", dst)]
    /\ UNCHANGED <<src, dst, inserts, provVars, apiVars>>

\* The execution of the last batch has answered (part_002:81-84).
FinalFlush(p) ==
    /\ run[p].pc = "finalFlush"
    /\ dst' = Execute(dst, run[p].bulk)
    /\ run' = [run EXCEPT ![p] =
            Complete([@ EXCEPT !.execs = Append(@, BulkLength(run[p].bulk)),
                               !.executed = @ \o OpIds(run[p].bulk),
                               !.records = Some(Records(run[p]))], "data", dst')]
    /\ UNCHANGED <<src, inserts, provVars, apiVars>>

\* bulkOperations.execute() has rejected: the bulk operation is unordered, so
\* any of its operations may have been applied before the error is thrown.
ExecuteFails(p) ==
    /\ run[p].pc \in {"flush", "finalFlush"}
    /\ \E S \in SUBSET (1..BulkLength(run[p].bulk)) :
        dst' = WriteOps(dst, BulkOps(run[p].bulk), S)
    /\ run' = [run EXCEPT ![p] = Throw(Rejected(@), dst')]
    /\ UNCHANGED <<src, inserts, provVars, apiVars>>

\* collection.options() has answered (part_002:98-101, 107).
Options(p) ==
    /\ run[p].pc = "options"
    /\ run' = [run EXCEPT ![p] =
            LET r == [@ EXCEPT !.validationInfo = src.validator]
            IN  IF HasValidator(r.validationInfo)
                THEN [r EXCEPT !.pc = "collMod", !.collMods = @ + 1]
                ELSE Complete(r, "schema", dst)]
    /\ UNCHANGED <<src, dst, inserts, provVars, apiVars>>

\* The collMod command has answered (part_002:102-107); the server refuses it
\* for a collection that does not exist.
CollModDone(p) ==
    /\ run[p].pc = "collMod"
    /\ IF dst.exists
       THEN /\ dst' = CollMod(dst, run[p].validationInfo)
            /\ run' = [run EXCEPT ![p] = Complete(@, "schema", dst')]
       ELSE /\ dst' = dst
            /\ run' = [run EXCEPT ![p] = Throw(Rejected(@), dst)]
    /\ UNCHANGED <<src, inserts, provVars, apiVars>>

\* listIndexes().toArray() has answered (part_002:120).
ListIndexes(p) ==
    /\ run[p].pc = "listIndexes"
    /\ run' = [run EXCEPT ![p] = [@ EXCEPT !.indexes = src.indexes,
                                           !.pc = "createIndexes"]]
    /\ UNCHANGED <<src, dst, inserts, provVars, apiVars>>

\* createIndexes has answered (part_002:121-122, 161).
CreateIndexesDone(p) ==
    /\ run[p].pc = "createIndexes"
    /\ IF IndexConflict(dst, run[p].indexes)
       THEN /\ dst' = dst
            /\ run' = [run EXCEPT ![p] = Throw(Rejected(@), dst)]
       ELSE /\ dst' = CreateIndexes(dst, run[p].indexes)
            /\ run' = [run EXCEPT ![p] = Complete(@, "indexes", dst')]
    /\ UNCHANGED <<src, inserts, provVars, apiVars>>

\* The pcs at which an invocation awaits a store operation that has no effect
\* on the destination when it rejects.
Awaiting ==
    {"connectLocal", "connectRemote", "count", "scan", "options", "collMod",
     "listIndexes", "createIndexes"}

\* The awaited operation rejects (no connection, a network or server error).
Reject(p) ==
    /\ run[p].pc \in Awaiting
    /\ run[p].pc = "count" => run[p].remoteDb # None
    /\ run' = [run EXCEPT ![p] = Throw(Rejected(@), dst)]
    /\ UNCHANGED <<src, dst, inserts, provVars, apiVars>>

\* Another client inserts a document into the source collection.
InsertDocument ==
    /\ inserts < MaxInserts
    /\ src' = [src EXCEPT !.docs = Append(@, SrcDoc(Len(@) + 1))]
    /\ inserts' = inserts + 1
    /\ UNCHANGED <<dst, run, provVars, apiVars>>

\* ------------------------------------------------------------- provisioning

\* The collection names of the model, in the order a database lists them;
\* "a" and "A" differ in case only.
Names == <<"A", "a", "B", "C">>

\* The lists of names a database can hold: the names of a set, in order.
NameLists == { SelectSeq(Names, LAMBDA n : n \in S) : S \in SUBSET {"A", "a", "B", "C"} }

Fold(n) == IF n = "a" THEN "A" ELSE n

\* Array.includes with the names compared without regard to case.
IncludesFolded(list, n) == \E i \in 1..Len(list) : Fold(list[i]) = Fold(n)

\* Array.includes: some element of the list is the very string.
Includes(list, n) == \E i \in 1..Len(list) : list[i] = n

\* getCollectionsToCreate: the remote names the local database does not list.
CollectionsToCreate(remote, local) ==
    SelectSeq(remote, LAMBDA remoteCollection : ~Includes(local, remoteCollection))

Range(list) == { list[i] : i \in 1..Len(list) }

\* The provisioning before it is asked for.  missing is the answer of
\* getCollectionsToCreate and local0 the local names it was computed from; item
\* the state of the creation of each missing collection; records the names
\* with a metadata record; created and failed the outcomes collected.
IdleProv ==
    [pc |-> "idle", missing |-> <<>>, item |-> [n \in {} |-> "none"],
     records |-> {}, created |-> {}, failed |-> {}, local0 |-> <<>>]

Settled == {"fulfilled", "rejected"}

\* An item that records the metadata before it creates the collection.
ItemStepAfterSwapped(state) ==
    CASE state = "connecting" -> "recording"
      [] state = "recording"  -> "creating"
      [] state = "creating"   -> "fulfilled"

\* What an item does after a step of it has succeeded: the connection, the
\* creation of the collection, the metadata record.
ItemStepAfter(state) ==
    CASE state = "connecting" -> "creating"
      [] state = "creating"   -> "recording"
      [] state = "recording"  -> "fulfilled"

\* The join of a fan-out that gives up on the first failure.
FirstFailure(item) ==
    \/ \E n \in DOMAIN item : item[n] = "rejected"
    \/ \A n \in DOMAIN item : item[n] = "fulfilled"

\* The join of the fan-out: every item has ended, one way or the other.
AllSettled(item) == \A n \in DOMAIN item : item[n] \in Settled

\* Provisioning is asked for: getCollectionsToCreate is called.
ProvisionStart ==
    /\ prov.pc = "idle"
    /\ prov' = [prov EXCEPT !.pc = "diffing"]
    /\ UNCHANGED <<syncVars, remoteCollections, localCollections, apiVars>>

\* getCollectionsToCreate has answered (databases.ts:197-203).
GetCollectionsToCreate ==
    /\ prov.pc = "diffing"
    /\ prov' = [prov EXCEPT !.pc = "diffed",
                            !.missing = CollectionsToCreate(remoteCollections, localCollections),
                            !.local0 = localCollections]
    /\ UNCHANGED <<syncVars, remoteCollections, localCollections, apiVars>>

\* The creation of every missing collection is begun, none waiting for another.
FanOut ==
    /\ prov.pc = "diffed"
    /\ prov' = [prov EXCEPT !.pc = "fanout",
                            !.item = [n \in Range(prov.missing) |-> "connecting"]]
    /\ UNCHANGED <<syncVars, remoteCollections, localCollections, apiVars>>

\* A connection or a listing of getCollectionsToCreate has rejected.
DiffFails ==
    /\ prov.pc = "diffing"
    /\ prov' = [prov EXCEPT !.pc = "failed"]
    /\ UNCHANGED <<syncVars, remoteCollections, localCollections, apiVars>>

\* createCollectionInLocalDatabase: the connection is open (part_002:48).
ItemConnect(n) ==
    /\ prov.pc \in {"fanout", "done"}
    /\ n \in DOMAIN prov.item
    /\ prov.item[n] = "connecting"
    /\ prov' = [prov EXCEPT !.item[n] = ItemStepAfter("connecting")]
    /\ UNCHANGED <<syncVars, remoteCollections, localCollections, apiVars>>

\* createCollection has answered (part_002:35-37, 49): the local database has
\* the collection; the server refuses a name the database has already.
ItemCreate(n) ==
    /\ prov.pc \in {"fanout", "done"}
    /\ n \in DOMAIN prov.item
    /\ prov.item[n] = "creating"
    /\ IF Includes(localCollections, n)
       THEN /\ prov' = [prov EXCEPT !.item[n] = "rejected"]
            /\ UNCHANGED localCollections
       ELSE /\ localCollections' = Append(localCollections, n)
            /\ prov' = [prov EXCEPT !.item[n] = ItemStepAfter("creating")]
    /\ UNCHANGED <<syncVars, remoteCollections, apiVars>>

\* CollectionServiceApi.createCollection has saved the metadata record
\* (part_007:107-110).
ItemRecord(n) ==
    /\ prov.pc \in {"fanout", "done"}
    /\ n \in DOMAIN prov.item
    /\ prov.item[n] = "recording"
    /\ prov' = [prov EXCEPT !.item[n] = ItemStepAfter("recording"),
                            !.records = @ \cup {n}]
    /\ UNCHANGED <<syncVars, remoteCollections, localCollections, apiVars>>

\* The step an item awaits rejects.
ItemFails(n) ==
    /\ prov.pc \in {"fanout", "done"}
    /\ n \in DOMAIN prov.item
    /\ prov.item[n] \in {"connecting", "creating", "recording"}
    /\ prov' = [prov EXCEPT !.item[n] = "rejected"]
    /\ UNCHANGED <<syncVars, remoteCollections, localCollections, apiVars>>

\* The fan-out is joined and the outcomes are collected.
Join ==
    /\ prov.pc = "fanout"
    /\ AllSettled(prov.item)
    /\ prov' = [prov EXCEPT !.pc = "done",
                            !.created = { n \in DOMAIN prov.item : prov.item[n] = "fulfilled" },
                            !.failed = { n \in DOMAIN prov.item : prov.item[n] = "rejected" }]
    /\ UNCHANGED <<syncVars, remoteCollections, localCollections, apiVars>>

\* ------------------------------------------------------- the error handler

\* The errors a handler can reject with: status and statusCode are 0 when the
\* error has no such property (an Error, a driver or a Mongoose error).
PlainError == [status |-> 0, statusCode |-> 0]

Errors == { [status |-> s, statusCode |-> c] : s \in {0, 404}, c \in {0, 400} }

\* A handler that looks at statusCode only.
StatusCodeOnly(err) == IF err.statusCode # 0 THEN err.statusCode ELSE 500

\* err.status || err.statusCode || 500 (part_000:27).
Status(err) ==
    IF err.status # 0 THEN err.status
    ELSE IF err.statusCode # 0 THEN err.statusCode
    ELSE 500

\* The response of a request that has not been answered: responses lists the
\* status of every response sent, passedOn the errors handed to the handler
\* after GlobalErrorHandler.
NoResponse == [headersSent |-> FALSE, responses |-> <<>>, passedOn |-> 0]

\* res.status(code).json(...) or .send(...): a response is sent.
Send(res, code) ==
    [res EXCEPT !.headersSent = TRUE, !.responses = Append(@, code)]

\* GlobalErrorHandler(err, req, res, next) (part_000:15-30): with the headers
\* sent the error is passed on and nothing is sent; otherwise one response
\* with the error's status is sent (the next() after it finds the headers
\* sent and sends nothing).
GlobalErrorHandler(res, err) ==
    IF res.headersSent
    THEN [res EXCEPT !.passedOn = @ + 1]
    ELSE Send(res, Status(err))

\* --------------------------------------------------------- connection records

Labels == {"L1", "L2"}

Reqs == {1, 2}

\* A createConnection request before it arrives; checked tells that the lookup
\* by label found no record.
IdleCreate == [pc |-> "idle", label |-> "", checked |-> FALSE, res |-> NoResponse]

\* getOneConnectionByLabel (base_service.ts:160-167): a record has the label.
GetOneConnectionByLabel(conns, label) == Includes(conns, label)

\* A collection of connections without an index on label.
NoUniqueIndex(conns, label) == FALSE

\* The unique index on label (part_005:24) refuses a record whose label
\* another record has.
DuplicateKey(conns, label) == Includes(conns, label)

\* POST /connections arrives (controllers/databases.ts:157-158): the lookup
\* by label is awaited.
CreateConnection(q) ==
    /\ creates[q].pc = "idle"
    /\ \E label \in Labels :
        creates' = [creates EXCEPT ![q] = [@ EXCEPT !.pc = "finding", !.label = label]]
    /\ UNCHANGED <<syncVars, provVars, connections, databases, dbCall, serviceVars>>

\* The lookup has answered (controllers/databases.ts:158-166): for a record
\* found the handler throws; otherwise ConnectionModel.create is awaited.
FindAnswers(q) ==
    /\ creates[q].pc = "finding"
    /\ creates' = [creates EXCEPT ![q] =
            IF GetOneConnectionByLabel(connections, @.label)
            THEN [@ EXCEPT !.pc = "failed", !.res = GlobalErrorHandler(@, PlainError)]
            ELSE [@ EXCEPT !.pc = "creating", !.checked = TRUE]]
    /\ UNCHANGED <<syncVars, provVars, connections, databases, dbCall, serviceVars>>

\* ConnectionModel.create has answered (base_service.ts:145-153,
\* controllers/databases.ts:166-167).
CreateAnswers(q) ==
    /\ creates[q].pc = "creating"
    /\ IF DuplicateKey(connections, creates[q].label)
       THEN /\ connections' = connections
            /\ creates' = [creates EXCEPT ![q] =
                    [@ EXCEPT !.pc = "failed", !.res = GlobalErrorHandler(@, PlainError)]]
       ELSE /\ connections' = Append(connections, creates[q].label)
            /\ creates' = [creates EXCEPT ![q] =
                    [@ EXCEPT !.pc = "done", !.res = Send(@, 200)]]
    /\ UNCHANGED <<syncVars, provVars, databases, dbCall, serviceVars>>

\* The lookup or the creation rejects for a reason of the store.
CreateRejects(q) ==
    /\ creates[q].pc \in {"finding", "creating"}
    /\ creates' = [creates EXCEPT ![q] =
            [@ EXCEPT !.pc = "failed", !.res = GlobalErrorHandler(@, PlainError)]]
    /\ UNCHANGED <<syncVars, provVars, connections, databases, dbCall, serviceVars>>

\* ----------------------------------------------------------- database records

DatabaseIds == {1, 2}

\* A call of DatabaseServiceApi.updateLastSync before it is made.
IdleDbCall == [pc |-> "idle", id |-> 0, result |-> None]

\* DatabaseModel.updateOne({_id}, {$set: {lastSync: new Date()}})
\* (services/databases.ts:206).  The schema declares lastSyncAt and no
\* lastSync (models/databases.ts:61-70): under strict casting the field is
\* dropped and no command is sent; otherwise the field lastSync is written to
\* the record with that id, if there is one.
UpdateOne(dbs, id, strict) ==
    IF ~strict /\ id \in DOMAIN dbs THEN [dbs EXCEPT ![id].lastSync = "now"] ELSE dbs

\* updateResult.acknowledged (services/databases.ts:207): FALSE for the update
\* that was emptied and not sent, TRUE for a command the server acknowledged,
\* whether a record matched or not.
Acknowledged(strict) == ~strict

\* updateLastSync is called (services/databases.ts:205-206).
UpdateLastSyncCall ==
    /\ dbCall.pc = "idle"
    /\ \E id \in DatabaseIds : dbCall' = [dbCall EXCEPT !.pc = "updating", !.id = id]
    /\ UNCHANGED <<syncVars, provVars, connections, creates, databases, serviceVars>>

\* updateOne has answered (services/databases.ts:206-207).
UpdateOneAnswers ==
    /\ dbCall.pc = "updating"
    /\ \E strict \in BOOLEAN :
        /\ databases' = UpdateOne(databases, dbCall.id, strict)
        /\ dbCall' = [dbCall EXCEPT !.pc = "returned",
                                     !.result = Some(Acknowledged(strict))]
    /\ UNCHANGED <<syncVars, provVars, connections, creates, serviceVars>>

\* updateOne has rejected: so does updateLastSync.
UpdateOneRejects ==
    /\ dbCall.pc = "updating"
    /\ dbCall' = [dbCall EXCEPT !.pc = "failed"]
    /\ UNCHANGED <<syncVars, provVars, connections, creates, databases, serviceVars>>

\* ------------------------------------------------------- the sync request

\* A request before it arrives.  kind is "sync" for POST
\* /collections/:id/records/sync and "other" for a request of another
\* handler; records is the count in the response; upd the state of the call of
\* updateLastSync that is not awaited; err the error the handler rejected
\* with and sentBefore whether a response had been sent by then.
IdleSvc ==
    [pc |-> "idle", kind |-> "sync", records |-> None, upd |-> "none",
     err |-> None, sentBefore |-> FALSE]

\* A service that updates the timestamp whatever the sync did.
IssuesAlways(r) == TRUE

\* this.updateLastSync(collectionId) (part_007:137) is reached only when the
\* await of syncCollectionData (part_007:136) has returned.
IssuesUpdate(r) == r.pc = "done"

\* A rejection nobody awaits that fails the request.
UnhandledFails(res) == [res EXCEPT !.responses = Append(@, 500)]

\* The rejection of a promise nobody awaits: it is logged (index.ts:123-125)
\* and the request is left as it is.
UnhandledRejection(res) == res

\* The handler has rejected: asyncHandler hands the error to next
\* (controllers/collections.ts:175-182), Express to GlobalErrorHandler.
HandlerRejects(sv, err, res) ==
    [sv EXCEPT !.pc = "failed", !.err = Some(err), !.sentBefore = res.headersSent]

\* A request arrives (controllers/collections.ts:35-37, part_007:133).
Request ==
    /\ svc.pc = "idle"
    /\ \E kind \in {"sync", "other"} :
        svc' = [svc EXCEPT !.kind = kind,
                           !.pc = IF kind = "sync" THEN "findById" ELSE "handling"]
    /\ UNCHANGED <<syncVars, provVars, recordVars, collectionRecord, http>>

\* CollectionModel.findById(...).populate(...) has answered (part_007:133-136):
\* the record is destructured, which throws for null, and syncCollectionData
\* is to be called with raw coordinates.
FindCollection ==
    /\ svc.pc = "findById"
    /\ IF collectionRecord.exists
       THEN /\ svc' = [svc EXCEPT !.pc = "syncing"]
            /\ http' = http
       ELSE /\ svc' = HandlerRejects(svc, PlainError, http)
            /\ http' = GlobalErrorHandler(http, PlainError)
    /\ UNCHANGED <<syncVars, provVars, recordVars, collectionRecord>>

\* syncCollectionData is called by the service (part_007:136).
ServiceCall ==
    /\ svc.pc = "syncing"
    /\ CallWith(1, {"raw", "rawNoUrl"})

\* syncCollectionData has ended (part_007:136-138, controllers/collections.ts:
\* 37-38).  When it returned, updateLastSync is called and not awaited, the
\* service returns the count and the controller sends it; when it threw, the
\* handler rejects.
SyncEnds ==
    /\ svc.pc = "syncing"
    /\ run[1].pc \in Finished
    /\ LET upd == IF IssuesUpdate(run[1]) THEN "finding" ELSE "none"
       IN  IF run[1].pc = "done"
           THEN /\ svc' = [svc EXCEPT !.pc = "responded", !.records = run[1].result,
                                      !.upd = upd]
                /\ http' = Send(http, 200)
           ELSE /\ svc' = [HandlerRejects(svc, PlainError, http) EXCEPT !.upd = upd]
                /\ http' = GlobalErrorHandler(http, PlainError)
    /\ UNCHANGED <<syncVars, provVars, recordVars, collectionRecord>>

\* updateLastSync: findById has answered (part_007:122-129); for a record
\* found lastSyncAt is assigned and save is awaited, otherwise false is
\* returned.
UpdFind ==
    /\ svc.upd = "finding"
    /\ svc' = [svc EXCEPT !.upd = IF collectionRecord.exists THEN "saving" ELSE "done"]
    /\ UNCHANGED <<syncVars, provVars, recordVars, collectionRecord, http>>

\* updateLastSync: save has answered (part_007:126-127).
UpdSave ==
    /\ svc.upd = "saving"
    /\ collectionRecord' = [collectionRecord EXCEPT !.lastSyncAt = "now"]
    /\ svc' = [svc EXCEPT !.upd = "done"]
    /\ UNCHANGED <<syncVars, provVars, recordVars, http>>

\* updateLastSync: findById or save has rejected; nobody awaits the call.
UpdRejects ==
    /\ svc.upd \in {"finding", "saving"}
    /\ svc' = [svc EXCEPT !.upd = "failed"]
    /\ http' = UnhandledRejection(http)
    /\ UNCHANGED <<syncVars, provVars, recordVars, collectionRecord>>

\* A handler other than syncAllRecords sends its response.
OtherResponds ==
    /\ svc.pc = "handling"
    /\ svc' = [svc EXCEPT !.pc = "sent"]
    /\ http' = Send(http, 200)
    /\ UNCHANGED <<syncVars, provVars, recordVars, collectionRecord>>

\* A handler that has sent its response returns.
OtherReturns ==
    /\ svc.pc = "sent"
    /\ svc' = [svc EXCEPT !.pc = "responded"]
    /\ UNCHANGED <<syncVars, provVars, recordVars, collectionRecord, http>>

\* A handler other than syncAllRecords rejects, before or after it has sent
\* a response.
OtherRejects ==
    /\ svc.pc \in {"handling", "sent"}
    /\ \E err \in Errors :
        /\ svc' = HandlerRejects(svc, err, http)
        /\ http' = GlobalErrorHandler(http, err)
    /\ UNCHANGED <<syncVars, provVars, recordVars, collectionRecord>>

\* ------------------------------------------------------------ specifications

\* No request has arrived and no record is there.
ApiInit ==
    /\ connections = <<>>
    /\ creates = [q \in Reqs |-> IdleCreate]
    /\ databases = (1 :> [lastSyncAt |-> "none", lastSync |-> "none"])
    /\ dbCall = IdleDbCall
    /\ collectionRecord = [exists |-> TRUE, lastSyncAt |-> "previous"]
    /\ svc = IdleSvc
    /\ http = NoResponse

Init ==
    /\ src \in SrcInits
    /\ dst \in DstInits
    /\ run = [p \in Procs |-> IdleRun]
    /\ inserts = 0
    /\ remoteCollections = <<>>
    /\ localCollections = <<>>
    /\ prov = IdleProv
    /\ ApiInit

\* The steps of the p-th invocation of syncCollectionData.
Sync(p) ==
    \/ Start(p)
    \/ ConnectLocal(p)
    \/ ConnectRemote(p)
    \/ Count(p)
    \/ NoHandle(p)
    \/ CursorNext(p)
    \/ FlushBatch(p)
    \/ CursorEnd(p)
    \/ FinalFlush(p)
    \/ ExecuteFails(p)
    \/ Options(p)
    \/ CollModDone(p)
    \/ ListIndexes(p)
    \/ CreateIndexesDone(p)
    \/ Reject(p)

\* One invocation, and documents inserted into the source meanwhile.
Next ==
    \/ InsertDocument
    \/ Sync(1)

Spec == Init /\ [][Next]_vars

\* One invocation every store operation of which eventually answers, with a
\* result or with an error.
SpecLive == Init /\ [][Next]_vars /\ WF_vars(Sync(1))

\* Two invocations, one after the other, on a source that does not change.
NextTwice == \E p \in Procs : Sync(p)

SpecTwice == Init /\ [][NextTwice]_vars

\* The steps of an invocation that is called at any moment, whatever another
\* invocation is doing.
Concurrent(p) ==
    \/ Call(p)
    \/ ConnectLocal(p)
    \/ ConnectRemote(p)
    \/ Count(p)
    \/ NoHandle(p)
    \/ CursorNext(p)
    \/ FlushBatch(p)
    \/ CursorEnd(p)
    \/ FinalFlush(p)
    \/ ExecuteFails(p)
    \/ Options(p)
    \/ CollModDone(p)
    \/ ListIndexes(p)
    \/ CreateIndexesDone(p)
    \/ Reject(p)

\* Two invocations on the same collection whose steps interleave in any
\* order, on a source that does not change.
NextConcurrent == \E p \in Procs : Concurrent(p)

SpecConcurrent == Init /\ [][NextConcurrent]_vars

InitProvision ==
    /\ src = [docs |-> <<>>, validator |-> None, indexes |-> {IdIndex}]
    /\ dst = NoCollection
    /\ run = [p \in Procs |-> IdleRun]
    /\ inserts = 0
    /\ remoteCollections \in NameLists
    /\ localCollections \in NameLists
    /\ prov = IdleProv
    /\ ApiInit

NextProvision ==
    \/ ProvisionStart
    \/ GetCollectionsToCreate
    \/ FanOut
    \/ DiffFails
    \/ Join
    \/ \E n \in Range(Names) :
        \/ ItemConnect(n)
        \/ ItemCreate(n)
        \/ ItemRecord(n)
        \/ ItemFails(n)

SpecProvision == InitProvision /\ [][NextProvision]_vars

\* The stores of the sync as they are when no sync has been called.
SyncIdle ==
    /\ src = [docs |-> <<>>, validator |-> None, indexes |-> {IdIndex}]
    /\ dst = NoCollection
    /\ run = [p \in Procs |-> IdleRun]
    /\ inserts = 0
    /\ remoteCollections = <<>>
    /\ localCollections = <<>>
    /\ prov = IdleProv

InitRecords ==
    /\ SyncIdle
    /\ connections \in {<<>>, <<"L1">>}
    /\ creates = [q \in Reqs |-> IdleCreate]
    /\ databases = (1 :> [lastSyncAt |-> "none", lastSync |-> "none"])
    /\ dbCall = IdleDbCall
    /\ collectionRecord = [exists |-> TRUE, lastSyncAt |-> "previous"]
    /\ svc = IdleSvc
    /\ http = NoResponse

\* createConnection requests that interleave, and a call of
\* DatabaseServiceApi.updateLastSync.
NextRecords ==
    \/ UpdateLastSyncCall
    \/ UpdateOneAnswers
    \/ UpdateOneRejects
    \/ \E q \in Reqs :
        \/ CreateConnection(q)
        \/ FindAnswers(q)
        \/ CreateAnswers(q)
        \/ CreateRejects(q)

SpecRecords == InitRecords /\ [][NextRecords]_vars

InitService ==
    /\ src \in SrcInits
    /\ dst \in DstInits
    /\ run = [p \in Procs |-> IdleRun]
    /\ inserts = 0
    /\ remoteCollections = <<>>
    /\ localCollections = <<>>
    /\ prov = IdleProv
    /\ connections = <<>>
    /\ creates = [q \in Reqs |-> IdleCreate]
    /\ databases = (1 :> [lastSyncAt |-> "none", lastSync |-> "none"])
    /\ dbCall = IdleDbCall
    /\ collectionRecord \in { [exists |-> x, lastSyncAt |-> "previous"] : x \in BOOLEAN }
    /\ svc = IdleSvc
    /\ http = NoResponse

\* One request: the handler, the sync it calls and the timestamp update it
\* leaves behind.
NextService ==
    \/ Request
    \/ FindCollection
    \/ ServiceCall
    \/ SyncEnds
    \/ UpdFind
    \/ UpdSave
    \/ UpdRejects
    \/ OtherResponds
    \/ OtherReturns
    \/ OtherRejects
    \/ ConnectLocal(1)
    \/ ConnectRemote(1)
    \/ Count(1)
    \/ NoHandle(1)
    \/ CursorNext(1)
    \/ FlushBatch(1)
    \/ CursorEnd(1)
    \/ FinalFlush(1)
    \/ ExecuteFails(1)
    \/ Options(1)
    \/ CollModDone(1)
    \/ ListIndexes(1)
    \/ CreateIndexesDone(1)
    \/ Reject(1)

SpecService == InitService /\ [][NextService]_vars

\* ------------------------------------------------------------------ claims

StepDone(r, step) == \E i \in 1..Len(r.steps) : r.steps[i] = step

\* The bulk executions the batch boundary asks for: ceil(n / b) of them, b
\* operations each, the last one of n mod b operations, or b.
ExpectedExecs(n, b) ==
    [i \in 1..((n + b - 1) \div b) |->
        IF i * b <= n THEN b ELSE n % b]

\* C1 (as stated): once the Document Copier has returned from a scan of a source
\* of N documents that did not change, it has performed exactly ceil(N/B) bulk
\* executions, each of B operations but the last, which holds N mod B (or B).
BatchBoundary ==
    \A p \in Procs :
        (StepDone(run[p], "data") /\ inserts = run[p].ins0)
            => run[p].execs = ExpectedExecs(Len(src.docs), batchSize)

\* C2 (as stated): the bulk operation being filled never holds more than
\* batchSize operations, and neither does any bulk operation executed.
BatchNeverExceedsMax ==
    \A p \in Procs :
        /\ BulkLength(run[p].bulk) <= batchSize
        /\ \A i \in 1..Len(run[p].execs) : run[p].execs[i] <= batchSize

\* C3 (as stated): in every progress report processed <= total, whatever is
\* inserted into the source during the scan.
ProgressBounded ==
    \A p \in Procs : \A i \in 1..Len(run[p].reports) :
        run[p].reports[i].processed <= run[p].reports[i].total

\* C3 (amended): over consecutive progress reports processed never decreases
\* and every report carries the total snapshotted at the start, whatever is
\* inserted into the source; and as long as nothing has been inserted since the
\* snapshot, processed <= total in every report.
ProgressMonotone ==
    \A p \in Procs :
        LET reports == run[p].reports
        IN  /\ \A i \in 1..Len(reports) : reports[i].total = run[p].total
            /\ \A i \in 1..(Len(reports) - 1) :
                   reports[i].processed <= reports[i + 1].processed
            /\ inserts = run[p].insAtCount =>
                   \A i \in 1..Len(reports) : reports[i].processed <= reports[i].total

\* C3: a scan of an unchanged source has reported its last document.
ProgressWitness ==
    \E p \in Procs :
        /\ Len(run[p].reports) >= 2
        /\ inserts = run[p].insAtCount
        /\ run[p].reports[Len(run[p].reports)].processed = run[p].total

\* C4: when a first invocation has returned and the source is as it was, a
\* second invocation leaves the destination's documents, ruleset and indexes as
\* the first one left them, at every step of it, and returns the same count.
Idempotence ==
    (run[1].pc = "done" /\ run[2].pc # "idle" /\ inserts = run[1].ins0)
        => /\ dst = run[1].dstAtEnd[1]
           /\ run[2].pc = "done" => run[2].result = run[1].result

\* C4: both invocations have returned, the source holds documents and the
\* destination held documents before the first one.
IdempotenceWitness ==
    /\ run[1].pc = "done"
    /\ run[2].pc = "done"
    /\ Len(src.docs) >= 2
    /\ run[2].execs # <<>>
    /\ 9 \in DOMAIN dst.docs

RECURSIVE Sum(_)
Sum(list) == IF list = <<>> THEN 0 ELSE list[1] + Sum(Tail(list))

StepSequence == <<"resolve", "data", "schema", "indexes">>

\* C5: the steps are begun in the order resolve, documents, schema, indexes,
\* each only when the one before it has completed: an invocation counts or
\* scans only with the handles resolved, reads or applies the validator only
\* with every queued document executed and the document step completed, and
\* lists or creates indexes only with the schema step completed.
StepOrder ==
    \A p \in Procs :
        LET r == run[p]
        IN  /\ r.steps = SubSeq(StepSequence, 1, Len(r.steps))
            /\ r.started = SubSeq(StepSequence, 1, Len(r.started))
            /\ Len(r.started) <= Len(r.steps) + 1
            /\ r.pc \in {"count", "scan", "flush", "finalFlush"} => StepDone(r, "resolve")
            /\ r.pc \in {"options", "collMod"} =>
                   StepDone(r, "data") /\ Sum(r.execs) = r.pos
            /\ r.pc \in {"listIndexes", "createIndexes"} => StepDone(r, "schema")
            /\ r.pc = "done" => r.steps = StepSequence

\* C5: an invocation that executed a batch and issued collMod has returned.
StepOrderWitness ==
    \E p \in Procs :
        /\ run[p].pc = "done"
        /\ run[p].execs # <<>>
        /\ run[p].collMods = 1

\* C6: when an operation awaited in a step has rejected, the invocation has
\* failed with the error of that step and returns no count, the step has not
\* completed and no later step has been begun; and a failed invocation takes
\* no further step.
AbortOnFailure ==
    /\ [](\A p \in Procs :
            run[p].rejected # None
                => /\ run[p].pc = "failed"
                   /\ run[p].error = run[p].rejected
                   /\ run[p].result = None
                   /\ Len(run[p].started) = Len(run[p].steps) + 1
                   /\ run[p].started[Len(run[p].started)] = run[p].rejected[1])
    /\ [][\A p \in Procs :
            run[p].pc = "failed" => run'[p] = run[p]]_vars

\* C6: the schema step has failed after the documents were copied.
AbortWitness ==
    \E p \in Procs :
        /\ run[p].pc = "failed"
        /\ run[p].error = Some("schema")
        /\ run[p].execs # <<>>

\* C7: while the source has no validation ruleset, no step changes the
\* destination's ruleset and no collMod command is issued.
SchemaAsymmetry ==
    [][src.validator = None
         => /\ dst'.validator = dst.validator
            /\ \A p \in Procs : run'[p].collMods = run[p].collMods]_vars

\* C7: the schema step has completed for a source without a ruleset and a
\* destination with one.
SchemaAsymmetryWitness ==
    \E p \in Procs :
        /\ StepDone(run[p], "schema")
        /\ src.validator = None
        /\ dst.validator = Some({"r2"})

\* C8: once the schema step has completed for a source with a ruleset, the
\* destination's ruleset is the source's, whatever it was before.
SchemaReplacement ==
    \A p \in Procs :
        (StepDone(run[p], "schema") /\ src.validator # None)
            => dst.validator = src.validator

\* C8: the schema step has completed on a destination that had a ruleset of
\* its own (the one that holds the document 9).
SchemaReplacementWitness ==
    \E p \in Procs :
        /\ StepDone(run[p], "schema")
        /\ src.validator = Some({"r1"})
        /\ 9 \in DOMAIN dst.docs
        /\ dst.validator = Some({"r1"})

\* C9: the answer of getCollectionsToCreate holds, each once, exactly the names
\* the remote database lists and the local one does not, the names compared as
\* they are ("a" is missing from a database that has "A"); and nothing is
\* created for a name the local database had.
DiffCorrect ==
    prov.pc \in {"diffed", "fanout", "done"}
        => /\ Range(prov.missing) = Range(remoteCollections) \ Range(prov.local0)
           /\ Cardinality(Range(prov.missing)) = Len(prov.missing)
           /\ prov.pc # "diffed" => DOMAIN prov.item = Range(prov.missing)
           /\ \A n \in Range(prov.local0) : n \notin DOMAIN prov.item
           /\ (remoteCollections = <<"A", "B", "C">> /\ prov.local0 = <<"B">>)
                  => prov.missing = <<"A", "C">>

\* C9: the diff was computed for a local database that has "A" and not "a".
DiffWitness ==
    /\ prov.pc = "fanout"
    /\ Includes(prov.local0, "A")
    /\ Includes(prov.missing, "a")
    /\ Includes(remoteCollections, "B")
    /\ Includes(prov.local0, "B")

\* C10: when the provisioning has ended, every missing name has been attempted
\* to its end and is reported, as created when its collection and its metadata
\* record were made and as failed when a step of its own rejected; the failure
\* of one name leaves the others to go on, and what was created stays.
IsolationOnFailure ==
    /\ [](prov.pc = "done"
            => /\ \A n \in Range(prov.missing) : prov.item[n] \in Settled
               /\ prov.created \cup prov.failed = Range(prov.missing)
               /\ prov.created = { n \in Range(prov.missing) : prov.item[n] = "fulfilled" }
               /\ \A n \in prov.created :
                      n \in Range(localCollections) /\ n \in prov.records)
    /\ [][/\ Range(localCollections) \subseteq Range(localCollections')
          /\ prov.records \subseteq prov'.records
          /\ \A n \in DOMAIN prov.item :
                 (n \in DOMAIN prov'.item /\ prov'.item[n] = "rejected"
                     /\ prov.item[n] # "rejected")
                 => \A m \in DOMAIN prov.item \ {n} : prov'.item[m] = prov.item[m]]_vars

\* C10: of three missing names one has failed and the two others were created.
IsolationWitness ==
    /\ prov.pc = "done"
    /\ Len(prov.missing) = 3
    /\ prov.failed = {prov.missing[2]}
    /\ prov.created = {prov.missing[1], prov.missing[3]}

\* C11 (as stated): once the resolver has returned, the invocation holds two
\* live handles, whatever the shape of its parameters; and for parameters in
\* raw coordinates both connections were opened.
ResolverNormalization ==
    \A p \in Procs :
        StepDone(run[p], "resolve")
            => /\ run[p].localDb # None
               /\ run[p].remoteDb # None
               /\ IsRaw(run[p].target) => run[p].opens = 2

\* C12: for parameters that carry handles the resolver returns these very
\* handles and no connection is opened, by the resolver or by a later step.
ResolverPassThrough ==
    \A p \in Procs :
        (run[p].target = "populated" /\ run[p].pc # "idle")
            => /\ run[p].localDb = Some("callerLocal")
               /\ run[p].remoteDb = Some("callerRemote")
               /\ run[p].opens = 0
               /\ StepDone(run[p], "resolve")

\* C12: an invocation called with handles has copied documents and returned.
ResolverPassThroughWitness ==
    \E p \in Procs :
        /\ run[p].target = "populated"
        /\ run[p].pc = "done"
        /\ run[p].execs # <<>>

\* C13: when the opening of the local or of the remote connection has
\* rejected, the invocation has failed with that error in the resolve step:
\* no step after it was begun, no document was read or written, no collMod
\* was issued, no index was listed, the destination is as it was when the
\* invocation was called; and the invocation takes no further step, so that
\* no connection is opened again.
ConnectionFailure ==
    /\ [](\A p \in Procs :
            run[p].rejectedAt \in {"connectLocal", "connectRemote"}
                => /\ run[p].pc = "failed"
                   /\ run[p].error = Some("resolve")
                   /\ run[p].result = None
                   /\ run[p].started = <<"resolve">>
                   /\ run[p].steps = <<>>
                   /\ run[p].pos = 0 /\ run[p].execs = <<>>
                   /\ run[p].collMods = 0 /\ run[p].indexes = {}
                   /\ run[p].opens = (IF run[p].rejectedAt = "connectRemote" THEN 1 ELSE 0)
                   /\ dst = run[p].dstAtStart[1])
    /\ [][\A p \in Procs :
            run[p].rejectedAt \in {"connectLocal", "connectRemote"}
                => run'[p] = run[p] /\ dst' = dst]_vars

\* C13: the remote connection could not be opened for a source with documents,
\* a ruleset and a secondary index.
ConnectionFailureWitness ==
    \E p \in Procs :
        /\ run[p].rejectedAt = "connectRemote"
        /\ run[p].pc = "failed"
        /\ Len(src.docs) >= 2
        /\ src.validator # None
        /\ Cardinality(src.indexes) = 2

\* C14: once the Document Copier has returned, the count it returned is the
\* total it snapshotted before the scan (the number of documents the source
\* held then), whatever number of documents the cursor delivered and whatever
\* number of batches was executed; syncCollectionData returns that count.
ReturnsSnapshot ==
    \A p \in Procs :
        StepDone(run[p], "data")
            => /\ run[p].records = Some(run[p].total)
               /\ run[p].total = Len(src.docs) - (inserts - run[p].insAtCount)
               /\ run[p].pc = "done" => run[p].result = Some(run[p].total)

\* C14: an invocation has returned whose cursor delivered more documents than
\* were counted, in two bulk executions.
ReturnsSnapshotWitness ==
    \E p \in Procs :
        /\ run[p].pc = "done"
        /\ run[p].pos > run[p].total
        /\ Len(run[p].execs) = 2

\* The collection c after one complete sync from the source s: every source
\* document is there under its id with the source's values for the source's
\* fields, the other documents and fields are as they were; the ruleset is the
\* source's when the source has one; the source's indexes are added.
Mirrored(c, s) ==
    LET ids == { s.docs[i].id : i \in 1..Len(s.docs) }
        fieldsOf(id) == (CHOOSE i \in 1..Len(s.docs) : s.docs[i].id = id)
    IN  [exists |-> TRUE,
         docs |-> [id \in (DOMAIN c.docs) \cup ids |->
                     IF id \notin ids THEN c.docs[id]
                     ELSE LET new == s.docs[fieldsOf(id)].fields
                              old == IF id \in DOMAIN c.docs THEN c.docs[id] ELSE new
                          IN  [f \in (DOMAIN old) \cup (DOMAIN new) |->
                                  IF f \in DOMAIN new THEN new[f] ELSE old[f]]],
         validator |-> IF s.validator # None THEN s.validator ELSE c.validator,
         indexes |-> c.indexes \cup s.indexes \cup {IdIndex}]

\* C15: when two invocations whose steps interleaved have both returned, the
\* destination's documents, ruleset and indexes are what one complete sync
\* makes of the destination either invocation found, and what each invocation
\* left when it returned; each invocation's k-th progress report carries
\* processed = k and the total it snapshotted itself, the number of source
\* documents, and each returns that total.
ConcurrentConvergence ==
    /\ (\A p \in Procs : run[p].pc = "done")
          => \A p \in Procs :
                /\ dst = Mirrored(run[p].dstAtStart[1], src)
                /\ dst = run[p].dstAtEnd[1]
                /\ run[p].result = Some(Len(src.docs))
    /\ \A p \in Procs :
          /\ Len(run[p].reports) = run[p].thisCount
          /\ \A k \in 1..Len(run[p].reports) :
                /\ run[p].reports[k].processed = k
                /\ run[p].reports[k].total = Len(src.docs)

\* C15: both invocations have returned, each after two bulk executions; the
\* second was called before the first had written anything, on a destination
\* that held a document of its own.
ConcurrentWitness ==
    /\ run[1].pc = "done"
    /\ run[2].pc = "done"
    /\ Len(run[1].execs) = 2
    /\ Len(run[2].execs) = 2
    /\ run[2].dstAtStart = run[1].dstAtStart
    /\ run[1].dstAtEnd # run[2].dstAtStart
    /\ 9 \in DOMAIN dst.docs

\* C16 (as stated): an invocation given raw coordinates that has ended opened
\* the local and the remote connection once each, and has closed every
\* connection it opened.
ConnectionOwnership ==
    \A p \in Procs :
        (run[p].target = "raw" /\ run[p].pc = "done")
            => /\ run[p].opens = 2
               /\ run[p].closes = run[p].opens

\* C17: once the Document Copier has returned, the operations executed are the
\* upserts of the documents the cursor delivered, each once and in the order
\* of delivery, none of the queued ones missing; and no bulk execution, the
\* last one included, was of an empty batch.
FinalFlushComplete ==
    \A p \in Procs :
        /\ \A i \in 1..Len(run[p].execs) : run[p].execs[i] > 0
        /\ StepDone(run[p], "data")
              => /\ run[p].executed = [i \in 1..run[p].pos |-> src.docs[i].id]
                 /\ Sum(run[p].execs) = run[p].pos
                 /\ run[p].thisCount = run[p].pos

\* C17: the Document Copier has returned after a scan whose last document
\* filled the batch that was executed in the loop, so that nothing was left
\* for an execution after the loop.
FinalFlushWitness ==
    \E p \in Procs :
        /\ StepDone(run[p], "data")
        /\ Len(run[p].execs) = 1
        /\ run[p].reports[run[p].pos].at = run[p].pos
        /\ BulkLength(run[p].bulk) = 0
        /\ run[p].pos > 0

\* C18 (as stated): when an invocation has returned and the source is as it
\* was, the destination holds for every source document a document of the
\* same id whose fields are exactly the source document's.
UpsertExact ==
    \A p \in Procs :
        (run[p].pc = "done" /\ inserts = run[p].ins0)
            => \A i \in 1..Len(src.docs) :
                   /\ src.docs[i].id \in DOMAIN dst.docs
                   /\ dst.docs[src.docs[i].id] = src.docs[i].fields

\* C19 (as stated): the k-th progress report is written when k documents have
\* been queued and carries processed = k and the percentage of processed in
\* total; a scan that has ended has written one report per document.
ProgressReports ==
    \A p \in Procs :
        /\ \A k \in 1..Len(run[p].reports) :
              LET report == run[p].reports[k]
              IN  /\ report.processed = k
                  /\ report.at = k
                  /\ report.percent = Percent(report.processed, report.total)
        /\ StepDone(run[p], "data") => Len(run[p].reports) = run[p].pos

\* C20: when a bulk execution has rejected, the invocation has failed with
\* that error in the document step and returns no count; the schema and the
\* index step were not begun (no collMod, no index listed, ruleset and indexes
\* of the destination as they were, but for the _id index of a collection the
\* writes created); every document of a batch executed before is in the
\* destination with the source's values; and the invocation takes no further
\* step: no document is read or queued, no batch executed, nothing undone.
BatchFailure ==
    /\ [](\A p \in Procs :
            run[p].rejectedAt \in {"flush", "finalFlush"}
                => /\ run[p].pc = "failed"
                   /\ run[p].error = Some("data")
                   /\ run[p].result = None /\ run[p].records = None
                   /\ run[p].started = <<"resolve", "data">>
                   /\ run[p].collMods = 0 /\ run[p].indexes = {}
                   /\ dst.validator = run[p].dstAtStart[1].validator
                   /\ dst.indexes \ {IdIndex} = run[p].dstAtStart[1].indexes \ {IdIndex}
                   /\ \A k \in 1..Len(run[p].executed) :
                          LET id == run[p].executed[k]
                          IN  /\ id \in DOMAIN dst.docs
                              /\ \A f \in DOMAIN src.docs[id].fields :
                                     dst.docs[id][f] = src.docs[id].fields[f])
    /\ [][\A p \in Procs :
            run[p].rejectedAt \in {"flush", "finalFlush"}
                => run'[p] = run[p] /\ dst' = dst]_vars

\* C20: the execution after the loop has rejected after a batch was executed
\* in the loop, for a source with a ruleset and a destination without one.
BatchFailureWitness ==
    \E p \in Procs :
        /\ run[p].rejectedAt = "finalFlush"
        /\ run[p].pc = "failed"
        /\ Len(run[p].execs) = 1
        /\ src.validator # None
        /\ dst.validator = None
        /\ 1 \in DOMAIN dst.docs

\* C21: once the index step has completed, the destination has every index of
\* the source, the _id index included, and no two indexes of one name: the
\* step has not completed for a destination that had an index with the name
\* of a source index and another definition.  When createIndexes has
\* rejected, the invocation has failed with that error in the index step, and
\* the documents executed and the ruleset applied before are still in the
\* destination.
IndexMirror ==
    \A p \in Procs :
        /\ StepDone(run[p], "indexes")
              => /\ src.indexes \subseteq dst.indexes
                 /\ IdIndex \in dst.indexes
                 /\ \A i, j \in dst.indexes : i.name = j.name => i = j
                 /\ \A i \in run[p].dstAtStart[1].indexes, j \in src.indexes :
                        i.name = j.name => i = j
        /\ run[p].rejectedAt = "createIndexes"
              => /\ run[p].pc = "failed"
                 /\ run[p].error = Some("indexes")
                 /\ run[p].result = None
                 /\ run[p].steps = <<"resolve", "data", "schema">>
                 /\ \A k \in 1..Len(run[p].executed) :
                        LET id == run[p].executed[k]
                        IN  /\ id \in DOMAIN dst.docs
                            /\ \A f \in DOMAIN src.docs[id].fields :
                                   dst.docs[id][f] = src.docs[id].fields[f]
                 /\ src.validator # None => dst.validator = src.validator

\* C21: createIndexes has rejected for a destination whose index "ix" has
\* another definition than the source's, after documents and the ruleset were
\* copied.
IndexMirrorWitness ==
    \E p \in Procs :
        /\ run[p].rejectedAt = "createIndexes"
        /\ [name |-> "ix", key |-> "b"] \in dst.indexes
        /\ [name |-> "ix", key |-> "a"] \in src.indexes
        /\ run[p].execs # <<>>
        /\ dst.validator = Some({"r1"})

\* C22: an invocation has one cursor position and one bulk operation.  The
\* operations executed are those of the first documents the cursor delivered,
\* in the order of delivery, and during the scan the operations queued are
\* those of the documents delivered since, in that order.  The cursor
\* delivers the next document only while no execution is awaited, one
\* document at a time; and the operations executed grow only by an execution
\* that was awaited and has answered.
SequentialScan ==
    /\ [](\A p \in Procs :
            LET r == run[p]
                delivered == [i \in 1..r.pos |-> src.docs[i].id]
            IN  /\ r.executed = SubSeq(delivered, 1, Len(r.executed))
                /\ r.pc \in {"scan", "flush", "finalFlush"}
                      => r.executed \o OpIds(r.bulk) = delivered)
    /\ [][\A p \in Procs :
            /\ run'[p].pos # run[p].pos
                  => /\ run[p].pc = "scan"
                     /\ run'[p].pos = run[p].pos + 1
            /\ run'[p].executed # run[p].executed
                  => /\ run[p].pc \in {"flush", "finalFlush"}
                     /\ run'[p].pc \notin {"flush", "finalFlush"}
                     /\ run'[p].executed = run[p].executed \o OpIds(run[p].bulk)
                     /\ run'[p].pos = run[p].pos]_vars

\* C22: an execution is awaited after the cursor has ended, the one of the
\* loop has answered before, and the source has grown meanwhile.
SequentialScanWitness ==
    \E p \in Procs :
        /\ run[p].pc = "finalFlush"
        /\ Len(run[p].execs) = 1
        /\ BulkLength(run[p].bulk) = 2
        /\ inserts > run[p].ins0

\* C23: an invocation that was called eventually ends, with a count returned
\* or with an error, as long as every operation it awaits answers; it ends
\* with an error only when an operation it awaited has rejected (nothing
\* aborts it from outside), and once it has returned it has a count.
RunToCompletion ==
    /\ (run[1].pc # "idle") ~> (run[1].pc \in {"done", "failed"})
    /\ [](run[1].pc = "done" => run[1].result # None)
    /\ [][(run'[1].pc = "failed" /\ run[1].pc # "failed")
            => (run'[1].rejected # None /\ run[1].rejected = None)]_vars

\* C23: an invocation has returned after a scan during which the source grew
\* and two batches were executed.
RunToCompletionWitness ==
    /\ run[1].pc = "done"
    /\ inserts > run[1].ins0
    /\ Len(run[1].execs) = 2
    /\ run[1].collMods = 1

\* C24: a metadata record is requested only for a missing name whose
\* collection the local database has by then, so never for a name whose
\* creation failed; and the local database gains no collection but those of
\* missing names.
ProvisionOrder ==
    /\ [](\A n \in prov.records :
            n \in Range(localCollections) /\ n \in Range(prov.missing))
    /\ [][/\ Range(localCollections') \ Range(localCollections) \subseteq Range(prov.missing)
          /\ \A n \in prov'.records \ prov.records : n \in Range(localCollections)]_vars

\* C24: of three missing names one was created and recorded, one could not
\* be created and one was created but not recorded.
ProvisionOrderWitness ==
    /\ prov.pc = "done"
    /\ Len(prov.missing) = 3
    /\ prov.records = {prov.missing[1]}
    /\ prov.missing[2] \notin Range(localCollections)
    /\ prov.missing[3] \in Range(localCollections)
    /\ prov.failed = {prov.missing[2], prov.missing[3]}

\* C28: no step of a sync removes a document from the destination, and none
\* changes a destination document whose id no source document has; so the
\* destination holds every id it held when an invocation was called.
DestinationPreserved ==
    /\ [][\A id \in DOMAIN dst.docs :
            /\ id \in DOMAIN dst'.docs
            /\ (\A i \in 1..Len(src.docs) : src.docs[i].id # id)
                  => dst'.docs[id] = dst.docs[id]]_vars
    /\ [](\A p \in Procs :
            run[p].pc # "idle"
                => DOMAIN run[p].dstAtStart[1].docs \subseteq DOMAIN dst.docs)

\* C28: two invocations have returned, the first after two bulk executions,
\* and the destination's document 9, which the source has not, is as it was.
DestinationPreservedWitness ==
    /\ run[2].pc = "done"
    /\ Len(run[1].execs) = 2
    /\ run[2].execs # <<>>
    /\ 9 \in DOMAIN run[1].dstAtStart[1].docs
    /\ dst.docs[9] = [b |-> 3]

\* C25: at no time do two connection records have the same label; a request
\* that ends while a record has its label has failed, with an error response
\* and no record created; and a request that has failed has created nothing.
LabelUnique ==
    /\ [](\A i, j \in 1..Len(connections) :
            connections[i] = connections[j] => i = j)
    /\ [](\A q \in Reqs :
            creates[q].pc = "failed"
                => creates[q].res.responses = <<500>>)
    /\ [][\A q \in Reqs :
            /\ (creates[q].pc \in {"finding", "creating"}
                   /\ creates'[q].pc \notin {"finding", "creating"}
                   /\ Includes(connections, creates[q].label))
               => creates'[q].pc = "failed"
            /\ (creates'[q].pc = "failed" /\ creates[q].pc # "failed")
               => connections' = connections]_vars

\* C25: two requests with the same label both found no record of it; one
\* has created the record and the other one has failed.
LabelUniqueWitness ==
    \E q, r \in Reqs :
        /\ creates[q].label = creates[r].label
        /\ creates[q].pc = "done"
        /\ creates[r].pc = "failed"
        /\ creates[r].checked
        /\ Includes(connections, creates[q].label)

\* C26 (as stated): when updateLastSync has returned, it has returned true if
\* a database record with the id exists and false if none does, and when it
\* has returned true the record's lastSyncAt is the time of the call.
LastSyncReturn ==
    dbCall.pc = "returned"
        => /\ dbCall.result = Some(dbCall.id \in DOMAIN databases)
           /\ dbCall.result = Some(TRUE)
                 => databases[dbCall.id].lastSyncAt = "now"

\* C27: a request gets one response at most; when its handler has rejected it
\* has got exactly one: the one sent before the rejection when there was one
\* (the handler then passes the error on and sends nothing), and otherwise one
\* with the error's status, else its statusCode, else 500.
SingleResponse ==
    /\ Len(http.responses) <= 1
    /\ svc.pc = "failed"
          => /\ Len(http.responses) = 1
             /\ svc.sentBefore
                   => http.responses = <<200>> /\ http.passedOn = 1
             /\ ~svc.sentBefore
                   => /\ http.passedOn = 0
                      /\ LET err == svc.err[1]
                         IN  http.responses[1] =
                                 IF err.status # 0 THEN err.status
                                 ELSE IF err.statusCode # 0 THEN err.statusCode
                                 ELSE 500

\* C27: the sync request has failed in the index step of the sync and has got
\* the response 500.
SingleResponseWitness ==
    /\ svc.kind = "sync"
    /\ svc.pc = "failed"
    /\ run[1].error = Some("indexes")
    /\ http.responses = <<500>>

\* C29: updateLastSync is called only when syncCollectionData has returned
\* its count; while the sync has not returned, and when it has failed at
\* whatever step, no update is under way and the record's lastSyncAt is the
\* previous one.
LastSyncAfterSuccess ==
    /\ svc.upd # "none"
          => /\ run[1].pc = "done"
             /\ run[1].result # None
             /\ svc.records = run[1].result
    /\ run[1].pc # "done"
          => /\ svc.upd = "none"
             /\ collectionRecord.lastSyncAt = "previous"

\* C29: the request has failed because the sync failed in its last step,
\* after the documents were copied.
LastSyncWitness ==
    /\ svc.pc = "failed"
    /\ run[1].rejectedAt = "createIndexes"
    /\ run[1].execs # <<>>
    /\ collectionRecord.lastSyncAt = "previous"

\* C30: once the count has been sent it is the count syncCollectionData
\* returned, in the one response 200 of the request, whatever the state of
\* the timestamp update (pending, done or failed); and nothing the update does
\* changes the response or the count.
ResultIndependent ==
    /\ []((svc.kind = "sync" /\ svc.pc = "responded")
            => /\ http.responses = <<200>>
               /\ svc.records # None
               /\ svc.records = run[1].result)
    /\ [][svc.pc = "responded"
            => /\ svc'.pc = "responded"
               /\ svc'.records = svc.records
               /\ http' = http]_vars

\* C30: the count of a source with documents has been sent while the save of
\* the timestamp is awaited and lastSyncAt is the previous one.
ResultIndependentWitness ==
    /\ svc.pc = "responded"
    /\ svc.upd = "saving"
    /\ collectionRecord.lastSyncAt = "previous"
    /\ svc.records = Some(Len(src.docs))
    /\ Len(src.docs) >= 2

====
